---- MODULE Spec2Model ----
(***************************************************************************)
(* tresor-import: document classification and parsing dispatch.            *)
(*                                                                         *)
(* The module models src/src/index.js: the extension gate and the          *)
(* implementation selection (findImplementation), the dispatch             *)
(* (parseActivitiesFromPages), the result filter (filterResultActivities), *)
(* the page extraction (parseFile) and the top-level default export, which *)
(* wraps all of them in a promise.                                         *)
(*                                                                         *)
(* JavaScript values are tagged records: [t |-> "undefined"],              *)
(* [t |-> "array", v |-> <<...>>], [t |-> "object", ...].  Strings whose   *)
(* characters matter (file names, extensions) are sequences of one-letter  *)
(* strings, so that split, pop and toLowerCase are computed.               *)
(***************************************************************************)
EXTENDS Integers, Sequences, FiniteSets, TLC

VARIABLES
  allImplementations, \* the registry (index.js:14-17), fixed after start
  file,               \* the File handed to the caller's entry point
  isBrowser,          \* browser-or-node: isBrowser && !isNode
  pc,                 \* position of the run
  pages,              \* pages extracted so far / pages argument
  extension,          \* extension argument of the selector and the dispatcher
  impl,               \* const impl = findImplementation(...)
  parseInput,         \* the argument parsePages was called with
  returned,           \* the ParseResult as parsePages returned it (snapshot)
  result,             \* the ParseResult object itself (mutated in place)
  activities,         \* let activities of parseActivitiesFromPages
  raised,             \* the error thrown, if any
  outcome,            \* what the promise of the default export resolved with
  detectCalls,        \* implementations whose canParseDocument was evaluated
  parseCalls,         \* implementations whose parsePages was invoked
  batch               \* the runs of a batch of files, one record per file

vars == <<allImplementations, file, isBrowser, pc, pages, extension, impl,
          parseInput, returned, result, activities, raised, outcome,
          detectCalls, parseCalls, batch>>

(***************************************************************************)
(* Bounds of the model.                                                    *)
(***************************************************************************)
NumImpls == 2    \* entries of the registry
MaxPages == 2    \* pages of a PDF document, lines of a text file
MaxActs == 3     \* length of the activities an implementation returns
MaxStatus == 7   \* statuses an implementation may set or raise: 0..MaxStatus
NumFiles == 2    \* files of a batch
MaxBatchActs == 1 \* length of the activities returned in a batch

(***************************************************************************)
(* JavaScript values.                                                      *)
(***************************************************************************)
Undefined == [t |-> "undefined"]

Arr(s) == [t |-> "array", v |-> s]

Activity(n) == [t |-> "activity", id |-> n]

ParseResultObject(a, s) == [t |-> "object", activities |-> a, status |-> s]

None == [t |-> "none"]

Statuses == 0..MaxStatus

SeqsUpTo(S, n) == UNION {[1..k -> S] : k \in 0..n}

\* What an element of an implementation's activities array can be.
Elements == {Activity(1), Activity(2), Undefined}

\* Every ParseResult an implementation may return: parse(pages) →
\* {activities?: sequence, status?: integer}.
ParseResults ==
  {ParseResultObject(a, s) :
     a \in {Undefined} \cup {Arr(q) : q \in SeqsUpTo(Elements, MaxActs)},
     s \in Statuses}

(***************************************************************************)
(* Strings.                                                                *)
(***************************************************************************)
UpperCase == <<"P", "D", "F", "C", "S", "V", "T", "X">>

LowerCase == <<"p", "d", "f", "c", "s", "v", "t", "x">>

\* String.prototype.toLowerCase, letter by letter.
toLowerCase(s) ==
  [i \in DOMAIN s |->
     IF \E k \in DOMAIN UpperCase : UpperCase[k] = s[i]
     THEN LowerCase[CHOOSE k \in DOMAIN UpperCase : UpperCase[k] = s[i]]
     ELSE s[i]]

\* Array.prototype.includes.
includes(arr, x) == \E i \in DOMAIN arr : arr[i] = x

\* name.split('.').pop(): what follows the last dot, the whole name without one.
splitPop(name) ==
  LET dots == {i \in DOMAIN name : name[i] = "."}
  IN IF dots = {} THEN name
     ELSE LET last == CHOOSE i \in dots : \A j \in dots : j <= i
          IN SubSeq(name, last + 1, Len(name))

acceptedFileTypes == << <<"p", "d", "f">>, <<"c", "s", "v">> >>

(***************************************************************************)
(* Errors (the classes of @/errors).                                       *)
(***************************************************************************)
ParqetKinds ==
  {"ParqetDocumentError", "ParqetParserError", "ParqetActivityValidationError"}

\* new ParqetDocumentError(message, fileName, status): the message names the file.
ParqetDocumentError(fileName, status) ==
  [t |-> "error", name |-> "ParqetDocumentError", parqet |-> TRUE,
   about |-> fileName, data |-> [status |-> status]]

\* An error of one of the three classes, as an implementation raises it.
ParqetErrorOf(kind, status) ==
  [t |-> "error", name |-> kind, parqet |-> TRUE,
   about |-> <<>>, data |-> [status |-> status]]

\* Any error that is no ParqetError: Error, TypeError, SyntaxError, a rejection
\* of pdfjs.
UntypedError ==
  [t |-> "error", name |-> "Error", parqet |-> FALSE,
   about |-> <<>>, data |-> Undefined]

\* error instanceof ParqetError
instanceofParqetError(error) == error.parqet

Return(v) == [t |-> "return", value |-> v]

Throw(e) == [t |-> "throw", error |-> e]

(***************************************************************************)
(* The registry and the implementations.  An implementation recognises a   *)
(* document by a token on one of its pages and by the extension it is      *)
(* written for (ext = <<"*">>: it does not look at the extension).         *)
(***************************************************************************)
AnyExt == <<"*">>

Tokens == {"x"}

ImplKinds ==
  {[ext |-> e, token |-> k] :
     e \in {<<"p", "d", "f">>, <<"c", "s", "v">>, AnyExt}, k \in Tokens}

Registries ==
  {[i \in 1..NumImpls |-> [id |-> i, ext |-> f[i].ext, token |-> f[i].token]] :
     f \in [1..NumImpls -> ImplKinds]}

\* impl.canParseDocument(pages, extension)
canParseDocument(i, pgs, ext) ==
  /\ i.ext = AnyExt \/ i.ext = ext
  /\ \E n \in DOMAIN pgs : includes(pgs[n], i.token)

(***************************************************************************)
(* findImplementation(pages, fileName, extension), index.js:27-57.         *)
(***************************************************************************)
\* allImplementations.filter(impl => impl.canParseDocument(pages, extension))
matching(registry, pgs, ext) ==
  LET Can(i) == canParseDocument(i, pgs, ext)
  IN SelectSeq(registry, Can)

FirstMatchImplementation(registry, pgs, fileName, ext) ==
  IF ~includes(acceptedFileTypes, toLowerCase(ext))
  THEN Throw(ParqetDocumentError(fileName, 4))
  ELSE LET implementations == matching(registry, pgs, ext)
       IN IF Len(implementations) = 0
          THEN Throw(ParqetDocumentError(fileName, 1))
          ELSE Return(implementations[1])

CaseSensitiveGate(registry, pgs, fileName, ext) ==
  IF ~includes(acceptedFileTypes, ext)
  THEN Throw(ParqetDocumentError(fileName, 4))
  ELSE LET implementations == matching(registry, pgs, ext)
       IN IF Len(implementations) = 0
          THEN Throw(ParqetDocumentError(fileName, 1))
          ELSE IF Len(implementations) > 1
          THEN Throw(ParqetDocumentError(fileName, 2))
          ELSE Return(implementations[1])

findImplementation(registry, pgs, fileName, ext) ==
  IF ~includes(acceptedFileTypes, toLowerCase(ext))
  THEN Throw(ParqetDocumentError(fileName, 4))
  ELSE LET implementations == matching(registry, pgs, ext)
       IN IF Len(implementations) = 0
          THEN Throw(ParqetDocumentError(fileName, 1))
          ELSE IF Len(implementations) > 1
          THEN Throw(ParqetDocumentError(fileName, 2))
          ELSE Return(implementations[1])

(***************************************************************************)
(* filterResultActivities(result), index.js:174-195.  The value is the     *)
(* object after the function has assigned to its fields.                   *)
(***************************************************************************)
IsUndefined(activity) == activity = Undefined

\* Drops the invalid activities and keeps the rest.
DropInvalidActivities(r) ==
  IF r.activities # Undefined
  THEN IF Len(SelectSeq(r.activities.v, IsUndefined)) > 0
       THEN LET IsValid(a) == ~IsUndefined(a)
            IN [r EXCEPT !.activities = Arr(SelectSeq(r.activities.v, IsValid)),
                         !.status = 6]
       ELSE LET numberOfActivities == Len(r.activities.v)
            IN [r EXCEPT
                  !.activities =
                    IF numberOfActivities = 0 THEN Undefined ELSE r.activities,
                  !.status =
                    IF numberOfActivities = 0 /\ r.status = 0 THEN 5 ELSE r.status]
  ELSE r

\* Looks only at the first activity.
FirstActivityOnly(r) ==
  IF r.activities # Undefined
  THEN IF Len(r.activities.v) > 0 /\ IsUndefined(r.activities.v[1])
       THEN [r EXCEPT !.activities = Undefined, !.status = 6]
       ELSE LET numberOfActivities == Len(r.activities.v)
            IN [r EXCEPT
                  !.activities =
                    IF numberOfActivities = 0 THEN Undefined ELSE r.activities,
                  !.status =
                    IF numberOfActivities = 0 /\ r.status = 0 THEN 5 ELSE r.status]
  ELSE r

\* Sets status 5 for every empty sequence, whatever the status was.
AlwaysFive(r) ==
  IF r.activities # Undefined
  THEN IF Len(SelectSeq(r.activities.v, IsUndefined)) > 0
       THEN [r EXCEPT !.activities = Undefined, !.status = 6]
       ELSE LET numberOfActivities == Len(r.activities.v)
            IN [r EXCEPT
                  !.activities =
                    IF numberOfActivities = 0 THEN Undefined ELSE r.activities,
                  !.status = IF numberOfActivities = 0 THEN 5 ELSE r.status]
  ELSE r

\* Takes absent activities for an empty sequence.
AbsentCountsAsEmpty(r) ==
  IF r.activities # Undefined /\ Len(SelectSeq(r.activities.v, IsUndefined)) > 0
  THEN [r EXCEPT !.activities = Undefined, !.status = 6]
  ELSE LET numberOfActivities ==
             IF r.activities = Undefined THEN 0 ELSE Len(r.activities.v)
       IN [r EXCEPT
             !.activities =
               IF numberOfActivities = 0 THEN Undefined ELSE r.activities,
             !.status =
               IF numberOfActivities = 0 /\ r.status = 0 THEN 5 ELSE r.status]

filterResultActivities(r) ==
  IF r.activities # Undefined
  THEN IF Len(SelectSeq(r.activities.v, IsUndefined)) > 0
       THEN [r EXCEPT !.activities = Undefined, !.status = 6]
       ELSE LET numberOfActivities == Len(r.activities.v)
            IN [r EXCEPT
                  !.activities =
                    IF numberOfActivities = 0 THEN Undefined ELSE r.activities,
                  !.status =
                    IF numberOfActivities = 0 /\ r.status = 0 THEN 5 ELSE r.status]
  ELSE r

(***************************************************************************)
(* Inputs.                                                                 *)
(***************************************************************************)
\* A PDF page is its text fragments; the one page of a text file is its lines.
PageSet == {<<"x">>, <<"y">>, <<"x", "y">>}

Documents == SeqsUpTo(PageSet, MaxPages)

\* Extensions a caller may pass to findImplementation.
Extensions ==
  {<<"p", "d", "f">>, <<"P", "D", "F">>, <<"P", "d", "f">>,
   <<"c", "s", "v">>, <<"C", "S", "V">>, <<"c", "S", "v">>,
   <<"t", "x", "t">>, <<"T", "X", "T">>, <<"p", "d">>,
   <<"x", "p", "d", "f">>, <<>>}

NoFile == [name |-> <<"d">>, content |-> <<>>]

(***************************************************************************)
(* SpecSelect: a caller calls the exported findImplementation.             *)
(***************************************************************************)
\* The implementations whose canParseDocument the selector evaluates.
detected(registry, ext) ==
  IF includes(acceptedFileTypes, toLowerCase(ext))
  THEN {registry[i].id : i \in DOMAIN registry}
  ELSE {}

InitSelect ==
  /\ allImplementations \in Registries
  /\ file = NoFile
  /\ isBrowser = TRUE
  /\ pc = "findImplementation"
  /\ pages \in Documents
  /\ extension \in Extensions
  /\ impl = None
  /\ parseInput = None
  /\ returned = None
  /\ result = None
  /\ activities = None
  /\ raised = None
  /\ outcome = None
  /\ detectCalls = {}
  /\ parseCalls = <<>>
  /\ batch = <<>>

CallFindImplementation ==
  /\ pc = "findImplementation"
  /\ LET c == findImplementation(allImplementations, pages, file.name, extension)
     IN /\ impl' = IF c.t = "return" THEN c.value ELSE None
        /\ raised' = IF c.t = "throw" THEN c.error ELSE None
        /\ pc' = IF c.t = "return" THEN "returned" ELSE "thrown"
  /\ detectCalls' = detected(allImplementations, extension)
  /\ UNCHANGED <<batch, allImplementations, file, isBrowser, pages, extension,
                 parseInput, returned, result, activities, outcome, parseCalls>>

NextSelect == CallFindImplementation

SpecSelect == InitSelect /\ [][NextSelect]_vars

(***************************************************************************)
(* SpecFilter: the result filter applied to a ParseResult, and applied     *)
(* again to what it returned.                                              *)
(***************************************************************************)
InitFilter ==
  /\ allImplementations = [i \in 1..NumImpls |-> [id |-> i, ext |-> AnyExt, token |-> "x"]]
  /\ file = NoFile
  /\ isBrowser = TRUE
  /\ pc = "filter"
  /\ pages = <<>>
  /\ extension = <<>>
  /\ impl = None
  /\ parseInput = None
  /\ returned \in ParseResults
  /\ result = returned
  /\ activities = None
  /\ raised = None
  /\ outcome = None
  /\ detectCalls = {}
  /\ parseCalls = <<>>
  /\ batch = <<>>

\* activities = filterResultActivities(result): the object is changed in place
\* and is the value returned.
FilterOnce ==
  /\ pc = "filter"
  /\ result' = filterResultActivities(result)
  /\ activities' = result'
  /\ pc' = "filtered"
  /\ UNCHANGED <<batch, allImplementations, file, isBrowser, pages, extension, impl,
                 parseInput, returned, raised, outcome, detectCalls, parseCalls>>

\* filterResultActivities(activities): activities keeps the value the first
\* call returned, result is the object after the second call.
FilterTwice ==
  /\ pc = "filtered"
  /\ result' = filterResultActivities(activities)
  /\ pc' = "filteredTwice"
  /\ UNCHANGED <<batch, allImplementations, file, isBrowser, pages, extension, impl,
                 parseInput, returned, activities, raised, outcome,
                 detectCalls, parseCalls>>

NextFilter == FilterOnce \/ FilterTwice

SpecFilter == InitFilter /\ [][NextFilter]_vars

(***************************************************************************)
(* Files and the page extraction of parseFile, index.js:89-142, 201-210.   *)
(***************************************************************************)
\* String.prototype.trim on the fragments and lines of the model.
trim(str) ==
  CASE str = " y" -> "y"
    [] str = " " -> ""
    [] OTHER -> str

\* parsePageToContent(page): the trimmed, non-empty fragments of one page.
parsePageToContent(page) ==
  LET NonEmpty(item) == item # ""
  IN SelectSeq([i \in DOMAIN page |-> trim(page[i])], NonEmpty)

\* e.target.result.trim().split('\n') of a text given as its lines: the blank
\* lines at both ends go, and the empty text is the single line ''.
trimSplit(lines) ==
  LET inked == {i \in DOMAIN lines : trim(lines[i]) # ""}
  IN IF inked = {} THEN <<"">>
     ELSE LET first == CHOOSE i \in inked : \A j \in inked : i <= j
              last == CHOOSE i \in inked : \A j \in inked : j <= i
          IN SubSeq(lines, first, last)

\* The pages of a PDF as pdfjs hands them over, fragment by fragment.
RawPages == {<<"x">>, <<" y", "">>}

RawDocuments == SeqsUpTo(RawPages, MaxPages) \ {<<>>}

\* The lines of a text file.
Texts == SeqsUpTo({"x", ""}, MaxPages)

PdfNames ==
  {<<"d", ".", "p", "d", "f">>, <<"d", ".", "P", "D", "F">>, <<"p", "d", "f">>}

TextNames ==
  {<<"d", ".", "c", "s", "v">>, <<"d", ".", "C", "s", "v">>,
   <<"d", ".", "t", "x", "t">>}

Files ==
  {[name |-> n, content |-> c] : n \in PdfNames, c \in RawDocuments}
    \cup {[name |-> n, content |-> c] : n \in TextNames, c \in Texts}

(***************************************************************************)
(* csvLinesToJSON of @/helper followed by JSON.parse: one record per line  *)
(* after the header line, keyed by the header.                             *)
(***************************************************************************)
csvLinesToJSON(lines) ==
  [t |-> "records",
   v |-> [i \in 1..(Len(lines) - 1) |-> [header |-> lines[1], line |-> lines[i + 1]]]]

(***************************************************************************)
(* Spec: the default export, index.js:144-172.                             *)
(*                                                                         *)
(* The try block holds only parseFile(file).then(callback).  parseFile     *)
(* returns a promise and then() registers the callback; neither throws, so *)
(* the catch block of lines 161-170 is never entered: what the callback    *)
(* throws rejects the promise then() returned, which nobody holds.         *)
(***************************************************************************)
Init ==
  /\ allImplementations \in Registries
  /\ file \in Files
  /\ isBrowser \in BOOLEAN
  /\ pc = "start"
  /\ pages = <<>>
  /\ extension = None
  /\ impl = None
  /\ parseInput = None
  /\ returned = None
  /\ result = None
  /\ activities = None
  /\ raised = None
  /\ outcome = None
  /\ detectCalls = {}
  /\ parseCalls = <<>>
  /\ batch = <<>>

\* The default export builds its promise and calls parseFile, which computes
\* the extension and starts the FileReader (lines 145-147, 90-93, 136-140).
ParseFileStart ==
  /\ pc = "start"
  /\ extension' = toLowerCase(splitPop(file.name))
  /\ pc' = "reading"
  /\ UNCHANGED <<batch, allImplementations, file, isBrowser, pages, impl, parseInput,
                 returned, result, activities, raised, outcome, detectCalls,
                 parseCalls>>

\* reader.onload fires (lines 94-104).  Outside a browser the promise of
\* parseFile is resolved with no pages at once; what onload does after that
\* cannot change the resolution.
ReaderLoad ==
  /\ pc = "reading"
  /\ pc' = IF isBrowser THEN "extract" ELSE "then"
  /\ pages' = <<>>
  /\ UNCHANGED <<batch, allImplementations, file, isBrowser, extension, impl,
                 parseInput, returned, result, activities, raised, outcome,
                 detectCalls, parseCalls>>

\* The read fails: parseFile sets no onerror, onload never fires.
ReaderError ==
  /\ pc = "reading"
  /\ pc' = "abandoned"
  /\ UNCHANGED <<batch, allImplementations, file, isBrowser, pages, extension, impl,
                 parseInput, returned, result, activities, raised, outcome,
                 detectCalls, parseCalls>>

\* pdfjs.getDocument or getPage rejects (lines 113-119): the async onload
\* rejects and resolve is never called.
DecodeError ==
  /\ pc = "extract"
  /\ extension = <<"p", "d", "f">>
  /\ Len(pages) < Len(file.content)
  /\ raised' = UntypedError
  /\ pc' = "abandoned"
  /\ UNCHANGED <<batch, allImplementations, file, isBrowser, pages, extension, impl,
                 parseInput, returned, result, activities, outcome,
                 detectCalls, parseCalls>>

\* One turn of the loop of lines 115-121: the next page, in page order.
ExtractPage ==
  /\ pc = "extract"
  /\ extension = <<"p", "d", "f">>
  /\ Len(pages) < Len(file.content)
  /\ pages' = Append(pages, parsePageToContent(file.content[Len(pages) + 1]))
  /\ UNCHANGED <<batch, allImplementations, file, isBrowser, pc, extension, impl,
                 parseInput, returned, result, activities, raised, outcome,
                 detectCalls, parseCalls>>

\* Any other extension: the text is one page of lines (lines 122-128).
ExtractText ==
  /\ pc = "extract"
  /\ extension # <<"p", "d", "f">>
  /\ pages = <<>>
  /\ pages' = <<trimSplit(file.content)>>
  /\ UNCHANGED <<batch, allImplementations, file, isBrowser, pc, extension, impl,
                 parseInput, returned, result, activities, raised, outcome,
                 detectCalls, parseCalls>>

\* Resolves as soon as one page is there.
ResolveAfterFirstPage ==
  /\ pc = "extract"
  /\ Len(pages) >= 1
  /\ pc' = "then"
  /\ UNCHANGED <<batch, allImplementations, file, isBrowser, pages, extension, impl,
                 parseInput, returned, result, activities, raised, outcome,
                 detectCalls, parseCalls>>

\* resolve({pages, extension}) of lines 130-133.
ResolveParsedFile ==
  /\ pc = "extract"
  /\ IF extension = <<"p", "d", "f">>
     THEN Len(pages) = Len(file.content)
     ELSE Len(pages) = 1
  /\ pc' = "then"
  /\ UNCHANGED <<batch, allImplementations, file, isBrowser, pages, extension, impl,
                 parseInput, returned, result, activities, raised, outcome,
                 detectCalls, parseCalls>>

\* Goes on to the selection without looking at the number of pages.
CheckEmptySkipped ==
  /\ pc = "then"
  /\ pc' = "select"
  /\ UNCHANGED <<batch, allImplementations, file, isBrowser, pages, extension, impl,
                 parseInput, returned, result, activities, raised, outcome,
                 detectCalls, parseCalls>>

\* The callback of then() starts parseActivitiesFromPages: lines 66-71.
CheckEmpty ==
  /\ pc = "then"
  /\ IF Len(pages) = 0
     THEN /\ raised' = ParqetDocumentError(file.name, 1)
          /\ pc' = "rejected"
     ELSE /\ raised' = raised
          /\ pc' = "select"
  /\ UNCHANGED <<batch, allImplementations, file, isBrowser, pages, extension, impl,
                 parseInput, returned, result, activities, outcome,
                 detectCalls, parseCalls>>

\* const impl = findImplementation(pages, fileName, extension), line 73.
Select ==
  /\ pc = "select"
  /\ LET c == findImplementation(allImplementations, pages, file.name, extension)
     IN /\ impl' = IF c.t = "return" THEN c.value ELSE None
        /\ raised' = IF c.t = "throw" THEN c.error ELSE raised
        /\ pc' = IF c.t = "return" THEN "dispatch" ELSE "rejected"
  /\ detectCalls' = detected(allImplementations, extension)
  /\ UNCHANGED <<batch, allImplementations, file, isBrowser, pages, extension,
                 parseInput, returned, result, activities, outcome, parseCalls>>

\* Hands the pages over as they are, whatever the extension.
dispatchRawPages == Arr(pages)

\* What lines 77-83 hand to impl.parsePages.
dispatchInput ==
  IF extension = <<"p", "d", "f">> THEN Arr(pages) ELSE csvLinesToJSON(pages[1])

\* The extension takes one of the two branches of lines 77-83.  Under the
\* default export it always does: parseFile lower-cases the extension and
\* the gate of findImplementation lets only pdf and csv through.
Dispatched == extension \in {<<"p", "d", "f">>, <<"c", "s", "v">>}

\* JSON.parse(csvLinesToJSON(pages[0])) throws, line 81.
NormalizeThrows ==
  /\ pc = "dispatch"
  /\ extension = <<"c", "s", "v">>
  /\ raised' = UntypedError
  /\ pc' = "rejected"
  /\ UNCHANGED <<batch, allImplementations, file, isBrowser, pages, extension, impl,
                 parseInput, returned, result, activities, outcome,
                 detectCalls, parseCalls>>

\* impl.parsePages(...) raises a typed error with some status, or an untyped one.
ParseThrows ==
  /\ pc = "dispatch"
  /\ Dispatched
  /\ parseInput' = dispatchInput
  /\ parseCalls' = Append(parseCalls, impl.id)
  /\ \E e \in {ParqetErrorOf(k, s) : k \in ParqetKinds, s \in Statuses} \cup {UntypedError} :
       raised' = e
  /\ pc' = "rejected"
  /\ UNCHANGED <<batch, allImplementations, file, isBrowser, pages, extension, impl,
                 returned, result, activities, outcome, detectCalls>>

\* impl.parsePages(...) returns a ParseResult, lines 78 and 80-82.
ParseReturns ==
  /\ pc = "dispatch"
  /\ Dispatched
  /\ parseInput' = dispatchInput
  /\ parseCalls' = Append(parseCalls, impl.id)
  /\ \E r \in ParseResults :
       /\ returned' = r
       /\ result' = r
  /\ pc' = "filter"
  /\ UNCHANGED <<batch, allImplementations, file, isBrowser, pages, extension, impl,
                 activities, raised, outcome, detectCalls>>

\* activities = filterResultActivities(<the object parsePages returned>).
Filter ==
  /\ pc = "filter"
  /\ result' = filterResultActivities(result)
  /\ activities' = result'
  /\ pc' = "resolve"
  /\ UNCHANGED <<batch, allImplementations, file, isBrowser, pages, extension, impl,
                 parseInput, returned, raised, outcome, detectCalls, parseCalls>>

\* !!value.length: an array has a length, the object a ParseResult is has none.
truthyLength(value) == value.t = "array" /\ Len(value.v) # 0

\* resolve({file, activities, status: 0, successful}), lines 154-159.
Resolve ==
  /\ pc = "resolve"
  /\ outcome' = [file |-> file.name,
                 activities |-> activities,
                 status |-> 0,
                 successful |-> truthyLength(activities)]
  /\ pc' = "resolved"
  /\ UNCHANGED <<batch, allImplementations, file, isBrowser, pages, extension, impl,
                 parseInput, returned, result, activities, raised,
                 detectCalls, parseCalls>>

Next ==
  \/ ParseFileStart
  \/ ReaderLoad
  \/ ReaderError
  \/ DecodeError
  \/ ExtractPage
  \/ ExtractText
  \/ ResolveParsedFile
  \/ CheckEmpty
  \/ Select
  \/ NormalizeThrows
  \/ ParseThrows
  \/ ParseReturns
  \/ Filter
  \/ Resolve

Spec == Init /\ [][Next]_vars

(***************************************************************************)
(* SpecPages: a caller calls the exported parseActivitiesFromPages(pages,  *)
(* fileName, extension), index.js:65-86.  The steps are those of the       *)
(* callback above; pc = "rejected" is the function having thrown to its    *)
(* caller, pc = "resolve" is line 85, about to return activities.          *)
(***************************************************************************)
InitPages ==
  /\ allImplementations \in Registries
  /\ file = NoFile
  /\ isBrowser = TRUE
  /\ pc = "then"
  /\ pages \in Documents
  /\ extension \in Extensions
  /\ impl = None
  /\ parseInput = None
  /\ returned = None
  /\ result = None
  /\ activities = None
  /\ raised = None
  /\ outcome = None
  /\ detectCalls = {}
  /\ parseCalls = <<>>
  /\ batch = <<>>

\* Neither extension === 'pdf' nor extension === 'csv': activities stays the
\* [] of line 75 and no parsePages is called.
SkipDispatch ==
  /\ pc = "dispatch"
  /\ ~Dispatched
  /\ activities' = Arr(<<>>)
  /\ pc' = "resolve"
  /\ UNCHANGED <<batch, allImplementations, file, isBrowser, pages, extension, impl,
                 parseInput, returned, result, raised, outcome, detectCalls,
                 parseCalls>>

\* return activities, line 85.
ReturnActivities ==
  /\ pc = "resolve"
  /\ pc' = "returned"
  /\ UNCHANGED <<batch, allImplementations, file, isBrowser, pages, extension, impl,
                 parseInput, returned, result, activities, raised, outcome,
                 detectCalls, parseCalls>>

NextPages ==
  \/ CheckEmpty
  \/ Select
  \/ NormalizeThrows
  \/ ParseThrows
  \/ ParseReturns
  \/ SkipDispatch
  \/ Filter
  \/ ReturnActivities

SpecPages == InitPages /\ [][NextPages]_vars

(***************************************************************************)
(* Claims about the default export (Spec).                                 *)
(***************************************************************************)
\* Nothing is left to run: the promise was resolved, or the callback of
\* then() threw, or the extraction never called resolve.
Quiescent == pc \in {"resolved", "rejected", "abandoned"}

IsOutcome(o) == DOMAIN o = {"file", "activities", "status", "successful"}

\* C1: whatever the page extractor and the implementations do, the promise
\* of the default export is resolved with an Outcome: a run that has nothing
\* left to run has delivered one.
C1_EveryRunResolves == Quiescent => (outcome # None /\ IsOutcome(outcome))

\* C2: a Document, Parser or Activity validation error with status s raised
\* anywhere in the pipeline gives the caller an Outcome with status s,
\* successful false and activities absent.
C2_TypedErrorBecomesOutcome ==
  (Quiescent /\ raised # None /\ instanceofParqetError(raised)) =>
     /\ outcome # None
     /\ outcome.status = raised.data.status
     /\ outcome.successful = FALSE
     /\ outcome.activities = Undefined

\* C3: when one implementation is selected and its parse returns, the
\* Outcome's status and activities are those of the filter's output for the
\* parse result.
C3_OutcomeIsFilteredResult ==
  pc = "resolved" =>
     /\ outcome.status = filterResultActivities(returned).status
     /\ outcome.activities = filterResultActivities(returned).activities

NonEmptySequence(value) == value.t = "array" /\ Len(value.v) > 0

AllValid(r) ==
  /\ r.activities # Undefined
  /\ Len(r.activities.v) >= 1
  /\ \A i \in DOMAIN r.activities.v : r.activities.v[i] # Undefined

\* C4: in every Outcome successful is true exactly when activities is a
\* non-empty sequence; so a parse that produced n >= 1 valid activities with
\* status 0 resolves with successful true.
C4_SuccessfulIffActivities ==
  pc = "resolved" =>
     /\ outcome.successful <=> NonEmptySequence(outcome.activities)
     /\ (AllValid(returned) /\ returned.status = 0) => outcome.successful

\* A failure condition of the filter: an invalid activity, or no activity.
FilterFailure(r) ==
  /\ r.activities # Undefined
  /\ \/ Len(r.activities.v) = 0
     \/ \E i \in DOMAIN r.activities.v : r.activities.v[i] = Undefined

\* C5: in the filter's output and in the Outcome a non-zero status implies
\* that activities is absent, and the Outcome's status is 0 only when no
\* failure condition was triggered.
C5_StatusAndActivities ==
  /\ pc \in {"resolve", "resolved"} =>
       (activities.status # 0 => activities.activities = Undefined)
  /\ pc = "resolved" =>
       /\ outcome.status # 0 => outcome.activities = Undefined
       /\ outcome.status = 0 => (raised = None /\ ~FilterFailure(returned))

(***************************************************************************)
(* Claims about findImplementation (SpecSelect).                           *)
(***************************************************************************)
PDF == <<"p", "d", "f">>

CSV == <<"c", "s", "v">>

\* The registry entries whose predicate is true of the call's arguments.
Accepting ==
  {i \in DOMAIN allImplementations :
     canParseDocument(allImplementations[i], pages, extension)}

SelectDone == pc \in {"returned", "thrown"}

ThrewDocumentError(s) ==
  /\ pc = "thrown"
  /\ raised.name = "ParqetDocumentError"
  /\ raised.data.status = s

\* C6: for an accepted extension findImplementation returns I exactly when I
\* is the only registry entry whose canParseDocument is true, throws a
\* Document error with status 1 exactly when no entry's is, and one with
\* status 2 exactly when two or more are.
C6_SelectionTotality ==
  (SelectDone /\ toLowerCase(extension) \in {PDF, CSV}) =>
     /\ \A i \in DOMAIN allImplementations :
          (pc = "returned" /\ impl = allImplementations[i]) <=> (Accepting = {i})
     /\ ThrewDocumentError(1) <=> (Accepting = {})
     /\ ThrewDocumentError(2) <=> (Cardinality(Accepting) >= 2)
     /\ pc = "returned" => impl \in {allImplementations[i] : i \in Accepting}

\* Two entries accept a document with an accepted, upper-case extension.
C6_Witness ==
  /\ pc = "thrown"
  /\ extension = <<"P", "D", "F">>
  /\ Cardinality(Accepting) = 2
  /\ raised.data.status = 2

\* C7: an extension whose lower-cased form is not pdf or csv fails with a
\* Document error of status 4 whatever the pages and the registry; one whose
\* lower-cased form is pdf or csv never fails with status 4.
C7_ExtensionGate ==
  SelectDone =>
    IF toLowerCase(extension) \in {PDF, CSV}
    THEN ~(pc = "thrown" /\ raised.data.status = 4)
    ELSE ThrewDocumentError(4) /\ impl = None

\* A TXT document that two implementations would accept fails with status 4.
C7_Witness ==
  /\ ThrewDocumentError(4)
  /\ extension = <<"T", "X", "T">>
  /\ Cardinality(Accepting) = 2

(***************************************************************************)
(* Claims about filterResultActivities (SpecFilter).                       *)
(***************************************************************************)
HasUndefinedElement(r) ==
  /\ r.activities # Undefined
  /\ \E i \in DOMAIN r.activities.v : r.activities.v[i] = Undefined

\* C8: a ParseResult whose activities contain at least one undefined element
\* is filtered to activities absent and status 6, whatever the other
\* elements and the status set before.
C8_InvalidActivityPoisoning ==
  (pc = "filtered" /\ HasUndefinedElement(returned)) =>
     /\ activities.activities = Undefined
     /\ activities.status = 6

\* [activity, undefined, activity] with status 3 has been filtered.
C8_Witness ==
  /\ pc = "filtered"
  /\ returned = ParseResultObject(Arr(<<Activity(1), Undefined, Activity(2)>>), 3)

\* C9: a ParseResult with an empty activities sequence is filtered to
\* activities absent, with status 5 if the status was 0 and with the status
\* unchanged if it was not.
C9_EmptyParse ==
  (pc = "filtered" /\ returned.activities = Arr(<<>>)) =>
     /\ activities.activities = Undefined
     /\ activities.status = IF returned.status = 0 THEN 5 ELSE returned.status

\* An empty sequence with status 7 has been filtered.
C9_Witness ==
  /\ pc = "filtered"
  /\ returned = ParseResultObject(Arr(<<>>), 7)

\* C10: filtering the filter's output gives the same activities and status.
C10_FilterIdempotent ==
  pc = "filteredTwice" =>
     /\ result.activities = activities.activities
     /\ result.status = activities.status

\* The filter has been applied twice to [undefined, activity], status 0.
C10_Witness ==
  /\ pc = "filteredTwice"
  /\ returned = ParseResultObject(Arr(<<Undefined, Activity(1)>>), 0)

(***************************************************************************)
(* Claims about parseActivitiesFromPages (SpecPages).                      *)
(***************************************************************************)
\* C12: for an accepted extension in any letter case, non-empty pages and a
\* registry in which exactly one implementation accepts the document,
\* parseActivitiesFromPages invokes the selected implementation's parsePages
\* exactly once and returns that call's filtered result; it never returns
\* without having invoked it.
C12_ParseInvokedOnce ==
  pc = "returned" =>
     /\ Cardinality(Accepting) = 1
     /\ parseCalls = <<impl.id>>
     /\ returned # None
     /\ activities = filterResultActivities(returned)

\* C13: called with no pages, parseActivitiesFromPages fails with a Document
\* error of status 1 and evaluates no canParseDocument and no parsePages.
C13_EmptyDocument ==
  (Len(pages) = 0 /\ pc # "then") =>
     /\ pc = "rejected"
     /\ raised.name = "ParqetDocumentError"
     /\ raised.data.status = 1
     /\ detectCalls = {}
     /\ parseCalls = <<>>

\* The call with no pages and an accepted extension has thrown.
C13_Witness ==
  /\ pc = "rejected"
  /\ Len(pages) = 0
  /\ extension = PDF
  /\ raised.data.status = 1

(***************************************************************************)
(* Claims about the order of the stages (Spec).                            *)
(***************************************************************************)
\* All the pages of the file, in page order, as parseFile extracts them.
ExtractedPages ==
  IF extension = PDF
  THEN [i \in DOMAIN file.content |-> parsePageToContent(file.content[i])]
  ELSE <<trimSplit(file.content)>>

\* C14: the stages occur in the order Loaded, Classified, Parsed, Filtered,
\* Outcome: no canParseDocument is evaluated before all pages are extracted
\* in page order; parsePages is invoked only after the selection yielded
\* exactly one implementation, only on it and at most once; and a run that
\* ends in a selection failure invokes no parsePages.
C14_StageOrder ==
  /\ detectCalls # {} => (pc \notin {"start", "reading", "extract"} /\ pages = ExtractedPages)
  /\ Len(parseCalls) <= 1
  /\ parseCalls # <<>> =>
       /\ impl # None
       /\ detectCalls # {}
       /\ parseCalls = <<impl.id>>
       /\ Accepting = {impl.id}
  /\ (pc = "rejected" /\ impl = None) => parseCalls = <<>>
  /\ returned # None => parseCalls # <<>>
  /\ activities # None => returned # None
  /\ outcome # None => activities # None

\* A two-page PDF went through all the stages.
C14_Witness ==
  /\ pc = "resolved"
  /\ Len(file.content) = 2
  /\ pages = ExtractedPages
  /\ parseCalls = <<impl.id>>

(***************************************************************************)
(* Claims about the dispatch (SpecPages).                                  *)
(***************************************************************************)
\* What parsePages was called with is right for the extension.
RightInput ==
  parseCalls # <<>> =>
     IF extension = PDF
     THEN parseInput.t = "array" /\ parseInput.v = pages
     ELSE /\ extension = CSV
          /\ parseInput.t = "records"
          /\ parseInput = csvLinesToJSON(pages[1])

\* C15: with extension pdf parsePages receives the pages unmodified, with
\* extension csv it receives the structured records of pages[0] and not the
\* raw lines; the caller's pages are not modified by selection or dispatch.
C15_DispatchInput == [](RightInput) /\ [][pages' = pages]_vars

\* A CSV page of a header and one line was parsed.
C15_Witness ==
  /\ pc = "returned"
  /\ extension = CSV
  /\ pages = << <<"x", "y">> >>
  /\ parseInput = [t |-> "records", v |-> <<[header |-> "x", line |-> "y"]>>]

(***************************************************************************)
(* Claims about what the filter leaves alone (SpecFilter).                 *)
(***************************************************************************)
\* C16: the filter returns its input unchanged exactly when activities is
\* absent, or is a non-empty sequence with no undefined element, whatever
\* the status.
C16_UnchangedCases ==
  pc = "filtered" =>
     ((activities = returned) <=>
        (returned.activities = Undefined \/ AllValid(returned)))

\* Absent activities with status 0 came back as they were.
C16_Witness ==
  /\ pc = "filtered"
  /\ returned = ParseResultObject(Undefined, 0)
  /\ activities = returned

\* C17: the filter is pure: after it returns, the object it was given has
\* the activities and the status it had before the call.
C17_ArgumentUntouched ==
  pc = "filtered" =>
     /\ result.activities = returned.activities
     /\ result.status = returned.status

(***************************************************************************)
(* SpecBatch: a caller hands every file of a batch to the default export.  *)
(* Each call has its own promise, pages and locals (one record of batch);  *)
(* the calls share the registry and the environment, and their callbacks   *)
(* run in any order.                                                       *)
(***************************************************************************)
BatchFiles ==
  {[name |-> <<"d", ".", "p", "d", "f">>, content |-> << <<"x">> >>],
   [name |-> <<"d", ".", "c", "s", "v">>, content |-> <<"x", "x">>],
   [name |-> <<"d", ".", "t", "x", "t">>, content |-> <<"x">>]}

BatchResults ==
  {r \in ParseResults :
     r.activities = Undefined \/ Len(r.activities.v) <= MaxBatchActs}

\* The default export called with file f, lines 144-145.
startRun(f) ==
  [file |-> f, pc |-> "start", pages |-> <<>>, extension |-> None,
   impl |-> None, returned |-> None, activities |-> None, raised |-> None,
   outcome |-> None]

\* The runs one step of run r can lead to: the steps of Spec, on a record.
runSteps(r) ==
  CASE r.pc = "start" ->
         {[r EXCEPT !.extension = toLowerCase(splitPop(r.file.name)),
                    !.pc = "reading"]}
    [] r.pc = "reading" ->
         {[r EXCEPT !.pc = IF isBrowser THEN "extract" ELSE "then"],
          [r EXCEPT !.pc = "abandoned"]}
    [] r.pc = "extract" /\ r.extension = <<"p", "d", "f">> ->
         IF Len(r.pages) < Len(r.file.content)
         THEN {[r EXCEPT !.pages =
                  Append(r.pages, parsePageToContent(r.file.content[Len(r.pages) + 1]))],
               [r EXCEPT !.raised = UntypedError, !.pc = "abandoned"]}
         ELSE {[r EXCEPT !.pc = "then"]}
    [] r.pc = "extract" /\ r.extension # <<"p", "d", "f">> ->
         IF r.pages = <<>>
         THEN {[r EXCEPT !.pages = <<trimSplit(r.file.content)>>]}
         ELSE {[r EXCEPT !.pc = "then"]}
    [] r.pc = "then" ->
         IF Len(r.pages) = 0
         THEN {[r EXCEPT !.raised = ParqetDocumentError(r.file.name, 1),
                         !.pc = "rejected"]}
         ELSE {[r EXCEPT !.pc = "select"]}
    [] r.pc = "select" ->
         LET c == findImplementation(allImplementations, r.pages, r.file.name,
                                     r.extension)
         IN IF c.t = "return"
            THEN {[r EXCEPT !.impl = c.value, !.pc = "dispatch"]}
            ELSE {[r EXCEPT !.raised = c.error, !.pc = "rejected"]}
    [] r.pc = "dispatch" ->
         {[r EXCEPT !.raised = e, !.pc = "rejected"] :
            e \in {ParqetErrorOf(k, st) : k \in ParqetKinds, st \in Statuses}
                    \cup {UntypedError}}
           \cup {[r EXCEPT !.returned = q, !.pc = "filter"] : q \in BatchResults}
    [] r.pc = "filter" ->
         {[r EXCEPT !.activities = filterResultActivities(r.returned),
                    !.pc = "resolve"]}
    [] r.pc = "resolve" ->
         {[r EXCEPT !.outcome = [file |-> r.file.name,
                                 activities |-> r.activities,
                                 status |-> 0,
                                 successful |-> truthyLength(r.activities)],
                    !.pc = "resolved"]}
    [] OTHER -> {}

InitBatch ==
  /\ allImplementations \in Registries
  /\ file = NoFile
  /\ isBrowser \in BOOLEAN
  /\ pc = "batch"
  /\ pages = <<>>
  /\ extension = <<>>
  /\ impl = None
  /\ parseInput = None
  /\ returned = None
  /\ result = None
  /\ activities = None
  /\ raised = None
  /\ outcome = None
  /\ detectCalls = {}
  /\ parseCalls = <<>>
  /\ batch \in {[i \in 1..NumFiles |-> startRun(f[i])] : f \in [1..NumFiles -> BatchFiles]}

\* The next step of the run of some file of the batch.
StepRun ==
  \E i \in DOMAIN batch :
    \E next \in runSteps(batch[i]) :
      /\ batch' = [batch EXCEPT ![i] = next]
      /\ UNCHANGED <<allImplementations, file, isBrowser, pc, pages, extension,
                     impl, parseInput, returned, result, activities, raised,
                     outcome, detectCalls, parseCalls>>

NextBatch == StepRun

SpecBatch == InitBatch /\ [][NextBatch]_vars

(***************************************************************************)
(* Claims about a batch (SpecBatch).                                       *)
(***************************************************************************)
RECURSIVE reachableRuns(_, _)
\* Every run reachable from the runs of frontier; seen holds those already met.
reachableRuns(seen, frontier) ==
  IF frontier = {} THEN seen
  ELSE LET next == UNION {runSteps(r) : r \in frontier}
       IN reachableRuns(seen \cup frontier, next \ (seen \cup frontier))

\* The Outcomes file f can receive when it is processed alone.
OutcomesAlone(f) ==
  {r.outcome : r \in {q \in reachableRuns({}, {startRun(f)}) : q.outcome # None}}

BatchQuiescent ==
  \A i \in DOMAIN batch : batch[i].pc \in {"resolved", "rejected", "abandoned"}

\* C11: when the files of a batch are processed by independent, interleaved
\* runs, every file receives an Outcome, which is one the file receives when
\* processed alone; a file that fails does not change or withhold the
\* Outcome of another.
C11_OneOutcomePerFile ==
  (pc = "batch" /\ BatchQuiescent) =>
     \A i \in DOMAIN batch :
        /\ batch[i].outcome # None
        /\ batch[i].outcome \in OutcomesAlone(batch[i].file)

====
